---- MODULE Spec2Model ----
(***************************************************************************)
(* NetworkRecordProvider (sdk/src/record-provider.ts): the record search   *)
(* of the Aleo SDK.  One provider instance, its account, and one search    *)
(* call at a time, followed through its suspension points (the await of    *)
(* getLatestHeight and the await of findUnspentRecords).  setAccount may    *)
(* run at any moment, also while a search is suspended.                    *)
(***************************************************************************)
EXTENDS Integers, Sequences, FiniteSets, TLC

\* ---------------------------------------------------------------- bounds
MaxAmounts == 2
MaxNonces == 1

\* ------------------------------------------------------- JavaScript values
\* A value of the open parameter bag: undefined, a number, or a (numeric)
\* string.  <<tag, n>> with n the number (or what the string coerces to).
Undefined == <<"undefined", 0>>
Num(n) == <<"number", n>>
Str(n) == <<"string", n>>

\* typeof v == "number"
IsNumber(v) == v[1] = "number"

\* JavaScript truthiness: undefined and 0 are falsy, every other number and
\* every non-empty string is truthy.
Truthy(v) ==
    \/ v[1] = "number" /\ v[2] # 0
    \/ v[1] = "string"

\* An optional argument: searchParameters and nonces may be left out.
NoParams == [defined |-> FALSE, startHeight |-> Undefined, endHeight |-> Undefined]
Params(s, e) == [defined |-> TRUE, startHeight |-> s, endHeight |-> e]
NoNonces == [defined |-> FALSE, list |-> <<>>]
Nonces(l) == [defined |-> TRUE, list |-> l]

\* What an awaited call delivers, or what a promise settles with.
NoValue == [tag |-> "none", msg |-> "", recs |-> <<>>]
ErrorVal(m) == [tag |-> "error", msg |-> m, recs |-> <<>>]
StringVal(m) == [tag |-> "string", msg |-> m, recs |-> <<>>]
RecordsVal(rs) == [tag |-> "records", msg |-> "", recs |-> rs]
RecordVal(r) == [tag |-> "record", msg |-> "", recs |-> <<r>>]

Pending == [kind |-> "pending", value |-> NoValue]
Resolved(v) == [kind |-> "resolved", value |-> v]
Rejected(v) == [kind |-> "rejected", value |-> v]

\* ---------------------------------------------------------- input domains
Accounts == {"A", "B"}
PrivateKey(a) == <<"privateKey", a>>

Amounts == {3000, 5000}
NonceIds == {"n1", "n2", "n3"}
StartValues == {Undefined, Num(0), Num(10), Str(7)}
EndValues == {Undefined, Num(0), Num(20), Str(7)}
TipHeights == {15, 100}

SeqUpTo(S, n) == UNION {[1..k -> S] : k \in 0..n}

AmountLists == SeqUpTo(Amounts, MaxAmounts)
NonceArgs == {NoNonces} \cup {Nonces(l) : l \in SeqUpTo(NonceIds, MaxNonces)}
ParamArgs == {NoParams} \cup {Params(s, e) : s \in StartValues, e \in EndValues}

\* ------------------------------------------------- the ledger query service
\* The records the network holds.
AllRecords ==
    { [nonce |-> "n1", microcredits |-> 5000, height |-> 15, owner |-> "A"],
      [nonce |-> "n2", microcredits |-> 5000, height |-> 5, owner |-> "A"],
      [nonce |-> "n3", microcredits |-> 3000, height |-> 15, owner |-> "B"] }

Ledgers == {AllRecords, {r \in AllRecords : r.nonce = "n1"}}

Range(s) == {s[i] : i \in 1..Len(s)}

\* getLatestHeight(): a height or an Error.
LatestHeightResponses ==
    {[isError |-> FALSE, height |-> Num(h)] : h \in TipHeights}
        \cup {[isError |-> TRUE, height |-> Undefined]}

NoHeight == [isError |-> FALSE, height |-> Undefined]

\* The records of the ledger a request may match for one amount.
Candidates(led, req, amount, taken) ==
    { r \in led :
        /\ PrivateKey(r.owner) = req.privateKey
        /\ req.startHeight[2] <= r.height
        /\ r.height <= req.endHeight[2]
        /\ r.microcredits = amount
        /\ r.nonce \notin taken }

RECURSIVE Match(_, _, _, _)
\* One record per amount, in the order of the amounts, no record twice;
\* not ok when some amount has no record left.
Match(led, req, i, found) ==
    IF i > Len(req.amounts) THEN [ok |-> TRUE, recs |-> found]
    ELSE
        LET taken == {found[j].nonce : j \in 1..Len(found)}
                        \cup (IF req.nonces.defined THEN Range(req.nonces.list) ELSE {})
            cands == Candidates(led, req, req.amounts[i], taken)
        IN  IF cands = {} THEN [ok |-> FALSE, recs |-> <<>>]
            ELSE LET r == CHOOSE c \in cands : \A d \in cands : c.height <= d.height
                 IN  Match(led, req, i + 1, Append(found, r))

\* findUnspentRecords(...): the matched records, or an Error (too few
\* records, or the transport failed), or nothing found.
FindUnspentResponses(led, req) ==
    LET m == Match(led, req, 1, <<>>)
    IN  {ErrorVal("Network error")}
            \cup (IF m.ok THEN {RecordsVal(m.recs)}
                  ELSE {ErrorVal("Insufficient records"), RecordsVal(<<>>)})

\* ------------------------------------------------------------------ state
VARIABLES
    account,            \* this.account
    ledger,             \* the records the ledger query service holds
    pc,                 \* where the current call stands
    op,                 \* the operation called
    creditAmounts,      \* argument
    unspent,            \* argument
    nonces,             \* argument
    searchParameters,   \* argument
    startHeight,        \* local of findCreditsRecords
    endHeight,          \* local of findCreditsRecords
    end,                \* what getLatestHeight delivered
    records,            \* what findUnspentRecords delivered
    heightCalls,        \* getLatestHeight invocations of this call
    unspentCalls,       \* findUnspentRecords requests of this call
    outcome,            \* how the call's promise settled
    accountAtCall,      \* this.account when the operation was called
    accountAtQuery      \* this.account when the batch query was issued

vars == <<account, ledger, pc, op, creditAmounts, unspent, nonces,
          searchParameters, startHeight, endHeight, end, records,
          heightCalls, unspentCalls, outcome, accountAtCall, accountAtQuery>>

args == <<op, creditAmounts, unspent, nonces, searchParameters>>

SearchOps == {"findCreditsRecords", "findCreditsRecord"}

\* ------------------------------------------------- findCreditsRecords, pure
\* let startHeight = 0; if (searchParameters) { if (sp["startHeight"] &&
\* typeof sp["endHeight"] == "number") startHeight = sp["startHeight"] }
ResolveStartHeight(sp) ==
    IF sp.defined /\ Truthy(sp.startHeight) /\ IsNumber(sp.endHeight)
    THEN sp.startHeight ELSE Num(0)

\* sp["endHeight"] && typeof sp["endHeight"] == "number"
EndHeightGiven(sp) == Truthy(sp.endHeight) /\ IsNumber(sp.endHeight)

\* Whether the call reaches the else branch that awaits getLatestHeight:
\* if (searchParameters) { ... if (endHeight given) ... else { await ... } }
NeedsLatestHeight(sp) == sp.defined /\ ~EndHeightGiven(sp)

\* let endHeight = 0; ... endHeight = sp["endHeight"]
ResolveEndHeight(sp) ==
    IF sp.defined /\ EndHeightGiven(sp) THEN sp.endHeight ELSE Num(0)

EndIsError_ignored(e) == FALSE

\* end instanceof Error
EndIsError(e) == e.isError

HeightFailure_returned(e) == Resolved(ErrorVal("Unable to get current block height"))

\* console.error(...); throw "Unable to get current block height"
HeightFailure(e) == Rejected(StringVal("Unable to get current block height"))

ForwardedNonces_dropped(n) == NoNonces

\* the nonces argument as passed on
ForwardedNonces(n) == n

Credential_atCall(a) == PrivateKey(accountAtCall)

\* this.account.privateKey()
Credential(a) == PrivateKey(a)

FindUnspentRequest_sorted(s, e, a, amounts, n) ==
    [startHeight |-> s, endHeight |-> e, privateKey |-> Credential(a),
     amounts |-> IF Len(amounts) = 2 /\ amounts[1] > amounts[2]
                 THEN <<amounts[2], amounts[1]>> ELSE amounts,
     program |-> Undefined, nonces |-> ForwardedNonces(n)]

\* this.networkClient.findUnspentRecords(startHeight, endHeight,
\*     this.account.privateKey(), creditAmounts, undefined, nonces)
FindUnspentRequest(s, e, a, amounts, n) ==
    [startHeight |-> s, endHeight |-> e, privateKey |-> Credential(a),
     amounts |-> amounts, program |-> Undefined, nonces |-> ForwardedNonces(n)]

BatchResult_truncated(r) ==
    Resolved(IF r.tag = "records" /\ Len(r.recs) > 1
             THEN RecordsVal(<<r.recs[1]>>)
             ELSE IF r.tag = "error" THEN RecordsVal(<<>>) ELSE r)

\* return await this.networkClient.findUnspentRecords(...)
BatchResult(r) == Resolved(r)

SingleResult_passError(r) ==
    IF r.tag = "records" /\ Len(r.recs) > 0
    THEN Resolved(RecordVal(r.recs[1]))
    ELSE IF r.tag = "error" THEN Resolved(r)
    ELSE Resolved(ErrorVal("Record not found"))

\* if (!(records instanceof Error) && records.length > 0) return records[0];
\* console.error(...); return new Error("Record not found");
SingleResult(r) ==
    IF r.tag # "error" /\ Len(r.recs) > 0
    THEN Resolved(RecordVal(r.recs[1]))
    ELSE Resolved(ErrorVal("Record not found"))

NotImplemented_searches(u, n, sp) ==
    IF sp.defined THEN Rejected(ErrorVal("Method not implemented."))
    ELSE Resolved(RecordsVal(<<>>))

\* throw new Error("Method not implemented.")
NotImplemented(u, n, sp) == Rejected(ErrorVal("Method not implemented."))

\* ---------------------------------------------------------------- actions
Init ==
    /\ account \in Accounts
    /\ ledger \in Ledgers
    /\ pc = "idle"
    /\ op = "none"
    /\ creditAmounts = <<>>
    /\ unspent = FALSE
    /\ nonces = NoNonces
    /\ searchParameters = NoParams
    /\ startHeight = Num(0)
    /\ endHeight = Num(0)
    /\ end = NoHeight
    /\ records = NoValue
    /\ heightCalls = 0
    /\ unspentCalls = <<>>
    /\ outcome = Pending
    /\ accountAtCall = "none"
    /\ accountAtQuery = "none"

\* setAccount(account)
SetAccount(a) ==
    /\ account' = a
    /\ UNCHANGED <<ledger, pc, args, startHeight, endHeight, end, records,
                   heightCalls, unspentCalls, outcome, accountAtCall, accountAtQuery>>

\* The synchronous start of findCreditsRecords, up to its first await.
StartSearch(o, amounts, u, n, sp) ==
    /\ op' = o
    /\ creditAmounts' = amounts
    /\ unspent' = u
    /\ nonces' = n
    /\ searchParameters' = sp
    /\ startHeight' = ResolveStartHeight(sp)
    /\ endHeight' = ResolveEndHeight(sp)
    /\ end' = NoHeight
    /\ records' = NoValue
    /\ outcome' = Pending
    /\ accountAtCall' = account
    /\ IF NeedsLatestHeight(sp)
       THEN /\ pc' = "awaitHeight"
            /\ heightCalls' = 1
            /\ unspentCalls' = <<>>
            /\ accountAtQuery' = "none"
       ELSE /\ pc' = "awaitQuery"
            /\ heightCalls' = 0
            /\ unspentCalls' = <<FindUnspentRequest(ResolveStartHeight(sp),
                                    ResolveEndHeight(sp), account, amounts, n)>>
            /\ accountAtQuery' = account
    /\ UNCHANGED <<account, ledger>>

\* findCreditsRecords(creditAmounts, unspent, nonces, searchParameters)
CallFindCreditsRecords ==
    /\ pc = "idle"
    /\ \E amounts \in AmountLists, u \in BOOLEAN, n \in NonceArgs, sp \in ParamArgs :
            StartSearch("findCreditsRecords", amounts, u, n, sp)

\* findCreditsRecord(creditAmount, ...): this.findCreditsRecords([creditAmount], ...)
CallFindCreditsRecord ==
    /\ pc = "idle"
    /\ \E creditAmount \in Amounts, u \in BOOLEAN, n \in NonceArgs, sp \in ParamArgs :
            StartSearch("findCreditsRecord", <<creditAmount>>, u, n, sp)

Unimplemented(o, u, n, sp) ==
    /\ op' = o
    /\ creditAmounts' = <<>>
    /\ unspent' = u
    /\ nonces' = n
    /\ searchParameters' = sp
    /\ startHeight' = Num(0)
    /\ endHeight' = Num(0)
    /\ end' = NoHeight
    /\ records' = NoValue
    /\ heightCalls' = 0
    /\ unspentCalls' = <<>>
    /\ outcome' = NotImplemented(u, n, sp)
    /\ pc' = "done"
    /\ accountAtCall' = account
    /\ accountAtQuery' = "none"
    /\ UNCHANGED <<account, ledger>>

\* findRecord(unspent, nonces, searchParameters)
CallFindRecord ==
    /\ pc = "idle"
    /\ \E u \in BOOLEAN, n \in NonceArgs, sp \in ParamArgs :
            Unimplemented("findRecord", u, n, sp)

\* findRecords(unspent, nonces, searchParameters)
CallFindRecords ==
    /\ pc = "idle"
    /\ \E u \in BOOLEAN, n \in NonceArgs, sp \in ParamArgs :
            Unimplemented("findRecords", u, n, sp)

\* The await of getLatestHeight resumes: throw on an Error, otherwise set
\* endHeight and issue the batch query.
LatestHeightReturns ==
    /\ pc = "awaitHeight"
    /\ \E e \in LatestHeightResponses :
        /\ end' = e
        /\ IF EndIsError(e)
           THEN /\ outcome' = HeightFailure(e)
                /\ pc' = "done"
                /\ UNCHANGED <<endHeight, unspentCalls, accountAtQuery>>
           ELSE /\ endHeight' = e.height
                /\ unspentCalls' = Append(unspentCalls,
                        FindUnspentRequest(startHeight, e.height, account,
                                           creditAmounts, nonces))
                /\ accountAtQuery' = account
                /\ pc' = "awaitQuery"
                /\ UNCHANGED outcome
        /\ UNCHANGED <<account, ledger, args, startHeight, records,
                       heightCalls, accountAtCall>>

\* The await of findUnspentRecords resumes and the call returns.
UnspentRecordsReturn ==
    /\ pc = "awaitQuery"
    /\ \E r \in FindUnspentResponses(ledger, unspentCalls[Len(unspentCalls)]) :
        /\ records' = r
        /\ outcome' = IF op = "findCreditsRecord"
                      THEN SingleResult(BatchResult(r).value)
                      ELSE BatchResult(r)
        /\ pc' = "done"
        /\ UNCHANGED <<account, ledger, args, startHeight, endHeight, end,
                       heightCalls, unspentCalls, accountAtCall, accountAtQuery>>

\* The caller's await of the settled promise completes; the call is over.
Settle ==
    /\ pc = "done"
    /\ pc' = "idle"
    /\ op' = "none"
    /\ creditAmounts' = <<>>
    /\ unspent' = FALSE
    /\ nonces' = NoNonces
    /\ searchParameters' = NoParams
    /\ startHeight' = Num(0)
    /\ endHeight' = Num(0)
    /\ end' = NoHeight
    /\ records' = NoValue
    /\ heightCalls' = 0
    /\ unspentCalls' = <<>>
    /\ outcome' = Pending
    /\ accountAtCall' = "none"
    /\ accountAtQuery' = "none"
    /\ UNCHANGED <<account, ledger>>

Next ==
    \/ \E a \in Accounts : SetAccount(a)
    \/ Settle
    \/ CallFindCreditsRecords
    \/ CallFindCreditsRecord
    \/ CallFindRecord
    \/ CallFindRecords
    \/ LatestHeightReturns
    \/ UnspentRecordsReturn

Spec == Init /\ [][Next]_vars

\* ------------------------------------------------------------- properties
Unimplemented_Ops == {"findRecord", "findRecords"}

\* The endHeight a caller supplied: a number under the key endHeight.
EndHeightSupplied == searchParameters.defined /\ IsNumber(searchParameters.endHeight)

\* The startHeight a caller supplied: a number under the key startHeight.
StartHeightSupplied == searchParameters.defined /\ IsNumber(searchParameters.startHeight)

\* C1: a search whose parameters supply no endHeight (or that has no
\* parameters at all) invokes getLatestHeight exactly once, and a search
\* whose parameters supply an endHeight never invokes it.
C1_TipLookupOnceIffEndOmitted ==
    (op \in SearchOps /\ pc = "done") =>
        heightCalls = (IF EndHeightSupplied THEN 0 ELSE 1)

\* Search parameters whose startHeight and endHeight are each a number or
\* left out (the shape of BlockHeightSearch).
NumericParams ==
    /\ searchParameters.defined
    /\ searchParameters.startHeight[1] \in {"number", "undefined"}
    /\ searchParameters.endHeight[1] \in {"number", "undefined"}

\* C2: with such search parameters, the window of the batch query is
\* [params.startHeight or 0, params.endHeight or the chain tip returned by
\* getLatestHeight], a numeric startHeight being used
\* whether or not an endHeight is given, and a numeric endHeight being used
\* for every non-negative integer, 0 included.
C2_WindowAsSpecified ==
    (op \in SearchOps /\ NumericParams /\ Len(unspentCalls) = 1) =>
        /\ unspentCalls[1].startHeight =
              (IF StartHeightSupplied THEN searchParameters.startHeight ELSE Num(0))
        /\ unspentCalls[1].endHeight =
              (IF EndHeightSupplied THEN searchParameters.endHeight ELSE end.height)

\* C3: a search whose height resolution succeeds issues exactly one
\* findUnspentRecords request, and the request carries the resolved window,
\* the private key of the provider's account, the caller's amounts in the
\* caller's order, no program filter and the caller's exclusion list.
C3_OneBatchQuery ==
    /\ Len(unspentCalls) <= 1
    /\ (op \in SearchOps /\ pc \in {"awaitQuery", "done"} /\ ~end.isError) =>
          /\ Len(unspentCalls) = 1
          /\ unspentCalls[1].startHeight = startHeight
          /\ unspentCalls[1].endHeight = endHeight
          /\ unspentCalls[1].privateKey = PrivateKey(accountAtQuery)
          /\ unspentCalls[1].amounts = creditAmounts
          /\ unspentCalls[1].program = Undefined
          /\ unspentCalls[1].nonces = nonces

C3_Witness ==
    /\ pc = "done"
    /\ op = "findCreditsRecords"
    /\ creditAmounts = <<5000, 3000>>
    /\ unspent = FALSE
    /\ nonces = Nonces(<<"n1">>)
    /\ heightCalls = 1
    /\ Len(unspentCalls) = 1

\* C4: findCreditsRecord queries the batch search with the singleton list
\* of its amount and its other arguments; it returns the first element of a
\* non-empty record sequence, and an Error "Record not found" when the batch
\* result is an Error of any kind or an empty sequence.
C4_SingleFromBatch ==
    (op = "findCreditsRecord" /\ pc = "done" /\ records.tag # "none") =>
        /\ Len(creditAmounts) = 1
        /\ Len(unspentCalls) = 1
        /\ unspentCalls[1].amounts = creditAmounts
        /\ unspentCalls[1].nonces = nonces
        /\ outcome =
              IF records.tag = "records" /\ Len(records.recs) >= 1
              THEN Resolved(RecordVal(records.recs[1]))
              ELSE Resolved(ErrorVal("Record not found"))

C4_Witness ==
    /\ pc = "done"
    /\ op = "findCreditsRecord"
    /\ records = ErrorVal("Network error")
    /\ outcome = Resolved(ErrorVal("Record not found"))

\* C5 as stated: no operation's promise ever rejects; every failure is an
\* Error value the promise resolves to.
C5_NeverRejects == outcome.kind # "rejected"

\* C5 as amended: a failure of the batch query is an Error value the promise
\* resolves to; a failed chain-tip lookup rejects the search with the string
\* "Unable to get current block height"; findRecord and findRecords reject
\* with Error("Method not implemented."); nothing else rejects.
C5_FailureDelivery ==
    pc = "done" =>
        /\ outcome.kind \in {"resolved", "rejected"}
        /\ (outcome.kind = "rejected") <=> (op \in Unimplemented_Ops \/ end.isError)
        /\ op \in Unimplemented_Ops =>
              outcome = Rejected(ErrorVal("Method not implemented."))
        /\ end.isError =>
              outcome = Rejected(StringVal("Unable to get current block height"))
        /\ (outcome.kind = "resolved" /\ records.tag = "error") =>
              outcome.value.tag = "error"

C5_Witness ==
    /\ pc = "done"
    /\ op = "findCreditsRecord"
    /\ end.isError
    /\ outcome = Rejected(StringVal("Unable to get current block height"))

\* C6: when getLatestHeight delivers an Error, the search ends in failure
\* and findUnspentRecords is never invoked for it; no record is returned.
C6_NoQueryAfterHeightFailure ==
    end.isError =>
        /\ pc = "done"
        /\ op \in SearchOps
        /\ heightCalls = 1
        /\ unspentCalls = <<>>
        /\ records = NoValue
        /\ outcome.kind = "rejected"

C6_Witness ==
    /\ pc = "done"
    /\ op = "findCreditsRecords"
    /\ end.isError
    /\ unspentCalls = <<>>

\* C7: with a ledger query service that honours the exclusion list it is
\* given, no record a search returns has a nonce of the caller's nonces.
C7_ExcludedNeverReturned ==
    (op \in SearchOps /\ pc = "done" /\ outcome.kind = "resolved" /\ nonces.defined) =>
        \A i \in 1..Len(outcome.value.recs) :
            outcome.value.recs[i].nonce \notin Range(nonces.list)

C7_Witness ==
    /\ pc = "done"
    /\ op = "findCreditsRecord"
    /\ nonces = Nonces(<<"n2">>)
    /\ outcome.kind = "resolved"
    /\ outcome.value.tag = "record"
    /\ outcome.value.recs[1].nonce = "n1"

\* C8: findRecord and findRecords always fail with the "not implemented"
\* error, and invoke neither getLatestHeight nor findUnspentRecords.
C8_UnimplementedFailFast ==
    (op \in Unimplemented_Ops /\ pc = "done") =>
        /\ outcome = Rejected(ErrorVal("Method not implemented."))
        /\ heightCalls = 0
        /\ unspentCalls = <<>>
        /\ end = NoHeight
        /\ records = NoValue

C8_Witness ==
    /\ pc = "done"
    /\ op = "findRecords"
    /\ ~nonces.defined
    /\ ~searchParameters.defined
    /\ outcome.kind = "rejected"

\* C9: what findCreditsRecords returns is exactly what findUnspentRecords
\* delivered: the same records in the same order, or the same Error.
C9_BatchVerbatim ==
    (op = "findCreditsRecords" /\ pc = "done" /\ Len(unspentCalls) = 1) =>
        /\ records \in FindUnspentResponses(ledger, unspentCalls[1])
        /\ outcome = Resolved(records)

C9_Witness ==
    /\ pc = "done"
    /\ op = "findCreditsRecords"
    /\ creditAmounts = <<5000, 5000>>
    /\ searchParameters = Params(Num(10), Num(20))
    /\ records = ErrorVal("Insufficient records")
    /\ outcome = Resolved(ErrorVal("Insufficient records"))

\* C10: the credential of the batch query is that of the account installed
\* when the query is issued; a search that needs no tip lookup issues it
\* before it first suspends, so with the account it was called under.
C10_CredentialAtQueryTime ==
    (op \in SearchOps /\ Len(unspentCalls) = 1) =>
        /\ unspentCalls[1].privateKey = PrivateKey(accountAtQuery)
        /\ heightCalls = 0 => unspentCalls[1].privateKey = PrivateKey(accountAtCall)

C10_Witness ==
    /\ pc = "done"
    /\ heightCalls = 1
    /\ accountAtCall = "A"
    /\ accountAtQuery = "B"
    /\ unspentCalls[1].privateKey = PrivateKey("B")
    /\ outcome.kind = "resolved"

====
